---- MODULE Spec2Model ----
(***************************************************************************)
(* A model of aozolite's build (src/build.py main) together with the       *)
(* extraction it calls (src/book_parser.py parse_book) and the card        *)
(* parser's interface (src/card_parser.py parse_card).                     *)
(*                                                                         *)
(* The state is the SQLite file at OUTPUT_PATH as the last commit left it  *)
(* (disk), the connection's view with its open transaction (conn), and the *)
(* position of main() (pc, file_idx).  The corpus (files, pages) is an     *)
(* input chosen in Init and unchanged afterwards.  Tables that no property *)
(* reads (anthologies, styles, card_categories) and the text columns of    *)
(* the rows are left out.                                                  *)
(***************************************************************************)
EXTENDS Integers, Sequences, FiniteSets, TLC

\* ------------------------------------------------------------------ bounds

\* Number of files File Discovery finds under cards/*/files.
NFiles == 4

\* The batch period of the periodic commit.  build.py commits when
\* file_idx % 100 == 0; the model keeps the rule and scales the period so
\* that a batch boundary falls inside a corpus of NFiles files.
BatchEvery == 2

\* The longest reading, the longest text and the largest number of
\* children of a main text the text functions are called with.
MaxReading == 2
MaxText == 3
MaxNodes == 2

\* ------------------------------------------------------------- the corpus

\* A license URL is the sequence of its tokens; "/" and "-" are the two
\* separators str.split is applied with, every other token is a run of
\* characters that holds neither.  Python's None (no rel=license anchor, a
\* NULL license column) is the empty sequence; an empty href is not among
\* the inputs.
None == <<>>

URL_BY_JP ==
    <<"http:", "/", "/", "creativecommons.org", "/", "licenses", "/",
      "by", "/", "2.1", "/", "jp", "/">>
URL_BY_ND_JP ==
    <<"http:", "/", "/", "creativecommons.org", "/", "licenses", "/",
      "by", "-", "nd", "/", "2.1", "/", "jp", "/">>
URL_BY_SA_4 ==
    <<"https:", "/", "/", "creativecommons.org", "/", "licenses", "/",
      "by", "-", "sa", "/", "4.0", "/">>
URL_BY_NC_ND_UPPER ==
    <<"https:", "/", "/", "creativecommons.org", "/", "licenses", "/",
      "BY", "-", "NC", "-", "ND", "/", "4.0", "/">>
URL_SHORT ==
    <<"https:", "/", "/", "creativecommons.org", "/">>
URL_DEEP_SA ==
    <<"http:", "/", "/", "example.org", "/", "cc", "/", "licenses", "/",
      "by", "-", "sa", "/", "2.1", "/", "jp">>

LicenseURLs ==
    {URL_BY_JP, URL_BY_ND_JP, URL_BY_SA_4, URL_BY_NC_ND_UPPER, URL_SHORT,
     URL_DEEP_SA}

\* A text page: which containers it holds and the href of its rel=license
\* anchor (None when it has no such anchor).
Doc(main_text, bi, at, license) ==
    [main_text |-> main_text, bi |-> bi, at |-> at, license |-> license]

DocNoBody == Doc(FALSE, FALSE, FALSE, None)
DocNoColophon == Doc(TRUE, FALSE, FALSE, None)
DocTwoColophons == Doc(TRUE, TRUE, TRUE, None)
DocBib(license) == Doc(TRUE, TRUE, FALSE, license)
DocAfterText(license) == Doc(TRUE, FALSE, TRUE, license)

\* Every page of the first slot; the other slots range over CommonDocs.
CommonDocs == {DocNoBody, DocTwoColophons, DocBib(None)}
AllDocs ==
    CommonDocs \cup {DocNoColophon, DocAfterText(URL_BY_JP)}
        \cup {DocBib(u) : u \in LicenseURLs}

\* The file of slot i (file_idx = i - 1 in the sorted list):
\* cards/<author_key:06>/files/<major_key>_<minor_key>.html, two revisions
\* per work.  name_ok = FALSE is a file name that holds "_" and ends in
\* ".html" but does not split into two integers (1_ruby_2.html).
SlotMajor(i) == (i + 1) \div 2
SlotMinor(i) == 2 - (i % 2)
File(i, name_ok, doc) ==
    [name_ok |-> name_ok, author_key |-> SlotMajor(i),
     major_key |-> SlotMajor(i), minor_key |-> SlotMinor(i), doc |-> doc]
FilesAt(i) ==
    {File(i, FALSE, DocNoBody)}
        \cup {File(i, TRUE, d) : d \in (IF i = 1 THEN AllDocs ELSE CommonDocs)}

\* A card page cards/<author_key:06>/card<major_key>.html: whether one of
\* its tables holds a label parse_card does not know, the person id of the
\* 著者名 row, and the 作家データ tables in document order.
Person(aozora_id, type) == [aozora_id |-> aozora_id, type |-> type]
Page(unknown_key, author, authors) ==
    [unknown_key |-> unknown_key, author |-> author, authors |-> authors]
PagesAt(m) ==
    IF m = 1
    THEN {Page(FALSE, 1, <<Person(1, "author"), Person(2, "translator")>>)}
    ELSE IF m = 2
    THEN {Page(FALSE, 3, <<Person(3, "author"), Person(1, "editor")>>),
          Page(TRUE, 3, <<Person(3, "author")>>),
          Page(FALSE, 1, <<Person(2, "translator")>>)}
    ELSE {Page(FALSE, m + 1, <<Person(m + 1, "author")>>)}

Majors == {SlotMajor(i) : i \in 1..NFiles}

\* The corpora of n files, and the card pages of the works 1..m.
RECURSIVE Corpora(_)
Corpora(n) ==
    IF n = 0 THEN {<<>>}
    ELSE {Append(fs, f) : fs \in Corpora(n - 1), f \in FilesAt(n)}

RECURSIVE CardPages(_)
CardPages(m) ==
    IF m = 0 THEN {<<>>}
    ELSE {Append(ps, p) : ps \in CardPages(m - 1), p \in PagesAt(m)}

\* 作品著作権フラグ of the work in the CSV index: "なし" (expired) is True.
copyright_expired(m) == m % 2 = 1

\* ---------------------------------------------- book_parser.py: parse_book

\* extract_colophon raises ValueError unless exactly one of the two
\* end-matter containers is present.
extract_colophon_first_found(doc) ==
    IF ~doc.bi /\ ~doc.at THEN "raise" ELSE "ok"

extract_colophon(doc) ==
    IF ~doc.bi /\ ~doc.at THEN "raise"
    ELSE IF doc.bi /\ doc.at THEN "raise"
    ELSE "ok"

extract_license(doc) == doc.license

\* parse_book: None without a main_text container, an exception raised by
\* extract_colophon, else the record (of which the model keeps the license).
BookResult(kind, license) == [kind |-> kind, license |-> license]

parse_book_without_body_test(doc) ==
    IF extract_colophon(doc) = "raise" THEN BookResult("raise", None)
    ELSE BookResult("data", extract_license(doc))

parse_book(doc) ==
    IF ~doc.main_text THEN BookResult("none", None)
    ELSE IF extract_colophon(doc) = "raise" THEN BookResult("raise", None)
    ELSE BookResult("data", extract_license(doc))

\* ------------------------------------------- build.py: the license filter

\* str.split(sep): the pieces between the separators, empty pieces kept.
RECURSIVE Split(_, _)
Split(s, sep) ==
    IF s = <<>> THEN << <<>> >>
    ELSE LET rest == Split(Tail(s), sep)
         IN  IF Head(s) = sep
             THEN << <<>> >> \o rest
             ELSE << <<Head(s)>> \o Head(rest) >> \o Tail(rest)

\* str.lower on one token.
lower_token(t) ==
    CASE t = "BY" -> "by"
      [] t = "NC" -> "nc"
      [] t = "ND" -> "nd"
      [] t = "SA" -> "sa"
      [] OTHER -> t

lower_identity(piece) == piece

lower(piece) == [k \in DOMAIN piece |-> lower_token(piece[k])]

\* cc = [x.lower() for x in license.split("/")[4].split("-")] and the test
\* "nd" in cc or "sa" in cc.  split("/")[4] raises IndexError on a URL of
\* fewer than five pieces.
LicenseFilter(license) ==
    IF license = None THEN "insert"
    ELSE LET pieces == Split(license, "/")
         IN  IF Len(pieces) < 5 THEN "raise"
             ELSE LET terms == Split(pieces[5], "-")
                      cc == {lower(terms[k]) : k \in DOMAIN terms}
                  IN  IF <<"nd">> \in cc \/ <<"sa">> \in cc
                      THEN "restrictive"
                      ELSE "insert"

\* -------------------------------------------- card_parser.py: parse_card

\* parse_card raises ValueError("Unknown key: ...") on a label it does not
\* know, else returns the card's data.
parse_card(page) == IF page.unknown_key THEN "raise" ELSE "data"

\* ------------------------------------------ characters and unicodedata

\* A character is its code point and a string is a sequence of code
\* points.
NEWLINE == \h0A
SPACE == \h20
IDEOGRAPHIC_SPACE == \h3000
REFERENCE_MARK == \h203B
FULLWIDTH_SOLIDUS == \hFF0F
FULLWIDTH_REVERSE_SOLIDUS == \hFF3C
PRIME == \h2032
DOUBLE_PRIME == \h2033
REPLACEMENT_CHARACTER == \hFFFD
VERTICAL_KANA_REPEAT_MARK == \h3031
VERTICAL_KANA_REPEAT_WITH_VOICED_SOUND_MARK == \h3032
COMBINING_VOICED_SOUND_MARK == \h3099
COMBINING_SEMI_VOICED_SOUND_MARK == \h309A

\* str.isspace, which str.strip() tests.
isspace(c) ==
    c \in (\h09..\h0D) \cup (\h1C..\h20) \cup {\h85, \hA0, \h1680}
          \cup (\h2000..\h200A)
          \cup {\h2028, \h2029, \h202F, \h205F, IDEOGRAPHIC_SPACE}

\* The kana that compose with U+3099 into the next code point (か..ち,
\* つ, て, と, the は row, ゝ, and the same katakana), and the は rows, which
\* compose with U+309A into the next but one.
HiraganaHaRow == {\h306F + 3 * k : k \in 0..4}
HiraganaVoicedBases ==
    {\h304B + 2 * k : k \in 0..11} \cup {\h3064, \h3066, \h3068}
        \cup HiraganaHaRow
KatakanaHaRow == {c + \h60 : c \in HiraganaHaRow}
KatakanaVoicedBases == {c + \h60 : c \in HiraganaVoicedBases}

\* The primary composite of a starter and a combining mark (0: none), for
\* the kana and the two sound marks.
Composite(base, mark) ==
    IF mark = COMBINING_VOICED_SOUND_MARK
    THEN IF base \in HiraganaVoicedBases \cup KatakanaVoicedBases
                         \cup {\h309D, \h30FD}
         THEN base + 1
         ELSE IF base = \h3046 THEN \h3094
         ELSE IF base = \h30A6 THEN \h30F4
         ELSE IF base \in \h30EF..\h30F2 THEN base + 8
         ELSE 0
    ELSE IF mark = COMBINING_SEMI_VOICED_SOUND_MARK
              /\ base \in HiraganaHaRow \cup KatakanaHaRow
    THEN base + 2
    ELSE 0

ComposingBases ==
    HiraganaVoicedBases \cup KatakanaVoicedBases
        \cup {\h309D, \h30FD, \h3046, \h30A6} \cup (\h30EF..\h30F2)
SoundMarks == {COMBINING_VOICED_SOUND_MARK, COMBINING_SEMI_VOICED_SOUND_MARK}

\* The canonical decomposition of a code point.
CanonicalDecomposition(c) ==
    IF \E b \in ComposingBases, m \in SoundMarks : Composite(b, m) = c
    THEN CHOOSE d \in {<<b, m>> : b \in ComposingBases, m \in SoundMarks} :
             Composite(d[1], d[2]) = c
    ELSE <<c>>

\* The compatibility decomposition of a code point: the fullwidth ASCII
\* block (digits, solidus and reverse solidus among it), the ideographic
\* space and the double prime.
CompatibilityDecomposition(c) ==
    IF c \in \hFF01..\hFF5E THEN <<c - \hFEE0>>
    ELSE IF c = IDEOGRAPHIC_SPACE THEN <<SPACE>>
    ELSE IF c = DOUBLE_PRIME THEN <<PRIME, PRIME>>
    ELSE <<c>>

RECURSIVE Flatten(_)
Flatten(ss) == IF ss = <<>> THEN <<>> ELSE Head(ss) \o Flatten(Tail(ss))

\* Canonical composition, left to right: a mark composes with the starter
\* before it.  The two sound marks have the same combining class, so there
\* is nothing to reorder.
RECURSIVE Compose(_, _)
Compose(done, rest) ==
    IF rest = <<>> THEN done
    ELSE IF done # <<>> /\ Composite(done[Len(done)], Head(rest)) # 0
    THEN Compose(SubSeq(done, 1, Len(done) - 1)
                     \o <<Composite(done[Len(done)], Head(rest))>>,
                 Tail(rest))
    ELSE Compose(Append(done, Head(rest)), Tail(rest))

\* unicodedata.normalize(form, text)
NFD(text) == Flatten([k \in DOMAIN text |-> CanonicalDecomposition(text[k])])
NFC(text) == Compose(<<>>, NFD(text))
NFKD(text) ==
    NFD(Flatten([k \in DOMAIN text |-> CompatibilityDecomposition(text[k])]))
NFKC(text) == Compose(<<>>, NFKD(text))

\* str.replace(key, value): the occurrences of key from the left, without
\* overlap.
RECURSIVE Replace(_, _, _)
Replace(text, key, value) ==
    IF Len(text) < Len(key) THEN text
    ELSE IF SubSeq(text, 1, Len(key)) = key
    THEN value \o Replace(SubSeq(text, Len(key) + 1, Len(text)), key, value)
    ELSE <<Head(text)>> \o Replace(Tail(text), key, value)

\* for k, v in rules.items(): text = text.replace(k, v), in the dict's
\* insertion order.
RECURSIVE ReplaceEach(_, _)
ReplaceEach(text, rules) ==
    IF rules = <<>> THEN text
    ELSE ReplaceEach(Replace(text, Head(rules)[1], Head(rules)[2]),
                     Tail(rules))

\* str.strip() and str.join
RECURSIVE lstrip(_)
lstrip(s) ==
    IF s # <<>> /\ isspace(Head(s)) THEN lstrip(Tail(s)) ELSE s
RECURSIVE rstrip(_)
rstrip(s) ==
    IF s # <<>> /\ isspace(s[Len(s)])
    THEN rstrip(SubSeq(s, 1, Len(s) - 1))
    ELSE s
strip(s) == rstrip(lstrip(s))

RECURSIVE Join(_, _)
Join(lines, sep) ==
    IF lines = <<>> THEN <<>>
    ELSE IF Len(lines) = 1 THEN Head(lines)
    ELSE Head(lines) \o <<sep>> \o Join(Tail(lines), sep)

\* ---------------------------------------------------------- normalizers.py

\* hiragana2katakana: chr(x) -> chr(x + 0x30A1 - 0x3041) for x in
\* range(0x3041, 0x3097).  No value of the dict is one of its keys, so the
\* loop of replaces is this map, character by character.
hiragana2katakana(c) ==
    IF c \in \h3041..\h3096 THEN c + \h30A1 - \h3041 ELSE c

\* normalize_katakana, in the dict's insertion order:
\* ァ→ア ィ→イ ゥ→ウ ェ→エ ォ→オ ッ→ツ ャ→ヤ ュ→ユ ョ→ヨ ヵ→カ ヶ→ケ ヰ→イ ヱ→エ
\* ヲ→オ ヂ→ジ ヅ→ズ ヴァ→バ ヴィ→ビ ヴ→ブ ヴェ→ベ ヴォ→ボ
normalize_katakana ==
    << << <<\h30A1>>, <<\h30A2>> >>, << <<\h30A3>>, <<\h30A4>> >>,
       << <<\h30A5>>, <<\h30A6>> >>, << <<\h30A7>>, <<\h30A8>> >>,
       << <<\h30A9>>, <<\h30AA>> >>, << <<\h30C3>>, <<\h30C4>> >>,
       << <<\h30E3>>, <<\h30E4>> >>, << <<\h30E5>>, <<\h30E6>> >>,
       << <<\h30E7>>, <<\h30E8>> >>, << <<\h30F5>>, <<\h30AB>> >>,
       << <<\h30F6>>, <<\h30B1>> >>, << <<\h30F0>>, <<\h30A4>> >>,
       << <<\h30F1>>, <<\h30A8>> >>, << <<\h30F2>>, <<\h30AA>> >>,
       << <<\h30C2>>, <<\h30B8>> >>, << <<\h30C5>>, <<\h30BA>> >>,
       << <<\h30F4, \h30A1>>, <<\h30D0>> >>,
       << <<\h30F4, \h30A3>>, <<\h30D3>> >>,
       << <<\h30F4>>, <<\h30D6>> >>,
       << <<\h30F4, \h30A7>>, <<\h30D9>> >>,
       << <<\h30F4, \h30A9>>, <<\h30DC>> >> >>

\* charset: the values of hiragana2katakana and the ten ASCII digits.
charset == (\h30A1..\h30F6) \cup (\h30..\h39)

normalize_reading(text) ==
    LET t1 == NFKC(text)
        t2 == [k \in DOMAIN t1 |-> hiragana2katakana(t1[k])]
        t3 == ReplaceEach(t2, normalize_katakana)
        t4 == SelectSeq(t3, LAMBDA x : x \in charset)
        t5 == SelectSeq(NFKD(t4), LAMBDA x : x \notin SoundMarks)
    IN  NFKC(t5)

\* replace_texts of normalize_text (and of book_parser.extract_text), in
\* the dict's insertion order: ※, ／＼, ／″＼.
replace_texts ==
    << << <<REFERENCE_MARK>>, <<REPLACEMENT_CHARACTER>> >>,
       << <<FULLWIDTH_SOLIDUS, FULLWIDTH_REVERSE_SOLIDUS>>,
          <<VERTICAL_KANA_REPEAT_MARK>> >>,
       << <<FULLWIDTH_SOLIDUS, DOUBLE_PRIME, FULLWIDTH_REVERSE_SOLIDUS>>,
          <<VERTICAL_KANA_REPEAT_WITH_VOICED_SOUND_MARK>> >> >>

\* "\n".join([x.strip() for x in text.split("\n") if x.strip() != ""])
not_empty(x) == x # <<>>

not_blank(x) == strip(x) # <<>>

strip_lines(text) ==
    LET lines == SelectSeq(Split(text, NEWLINE), not_blank)
    IN  Join([k \in DOMAIN lines |-> strip(lines[k])], NEWLINE)

normalize_text(text) ==
    strip_lines(ReplaceEach(NFC(text), replace_texts))

\* ------------------------- book_parser.py and book_texts.py: extract_text

\* The children of div.main_text in document order.  A node is a string
\* (tag "text", s its characters), <br/> ("br"), <img class="gaiji"
\* alt=s> ("gaiji"), another <img> ("img"), <span class="notes">s</span>
\* ("notes"), or <ruby><rb>..</rb><rt>..</rt></ruby> ("ruby", rb and rt
\* the children of the two elements).
Node(tag, s, rb, rt) == [tag |-> tag, s |-> s, rb |-> rb, rt |-> rt]
TextNode(s) == Node("text", s, <<>>, <<>>)
Br == Node("br", <<>>, <<>>, <<>>)
Gaiji(alt) == Node("gaiji", alt, <<>>, <<>>)
Img == Node("img", <<>>, <<>>, <<>>)
Notes(s) == Node("notes", s, <<>>, <<>>)
Ruby(rb, rt) == Node("ruby", <<>>, rb, rt)

\* Tag.text and Tag.get_text(): the strings below the nodes, concatenated.
RECURSIVE get_text(_)
get_text(nodes) ==
    IF nodes = <<>> THEN <<>>
    ELSE LET n == Head(nodes)
         IN  (IF n.tag \in {"text", "notes"} THEN n.s
              ELSE IF n.tag = "ruby" THEN get_text(n.rb) \o get_text(n.rt)
              ELSE <<>>) \o get_text(Tail(nodes))

\* main_text.find_all(tag): the positions of the nodes found.
find_all(nodes, tag) == {k \in DOMAIN nodes : nodes[k].tag = tag}

\* for x in found: x.replace_with(string), string[k] the string for the
\* node at position k.
replace_with(nodes, found, string) ==
    [k \in DOMAIN nodes |->
        IF k \in found THEN TextNode(string[k]) ELSE nodes[k]]

\* unicode_pattern = re.compile(r"U\+([0-9A-F]+)"): re.search gives the
\* leftmost match (0: None), and group(1) is the longest run of digits.
HexDigits == (\h30..\h39) \cup (\h41..\h46)
MatchAt(alt, i) ==
    /\ i + 2 <= Len(alt)
    /\ alt[i] = \h55
    /\ alt[i + 1] = \h2B
    /\ alt[i + 2] \in HexDigits
unicode_pattern_search(alt) ==
    IF \E i \in DOMAIN alt : MatchAt(alt, i)
    THEN CHOOSE i \in DOMAIN alt :
             MatchAt(alt, i) /\ \A j \in 1..(i - 1) : ~MatchAt(alt, j)
    ELSE 0

\* chr(int(unicode_match.group(1), 16)), the group starting at alt[i]
RECURSIVE int16(_, _, _)
int16(alt, i, n) ==
    IF i <= Len(alt) /\ alt[i] \in HexDigits
    THEN int16(alt, i + 1,
               n * 16 + (IF alt[i] <= \h39 THEN alt[i] - \h30
                         ELSE alt[i] - \h41 + 10))
    ELSE n

\* book_texts.py, lines 34-40: the string that replaces a gaiji image.
gaiji_by_alt(node) ==
    IF unicode_pattern_search(node.s) # 0
    THEN <<int16(node.s, unicode_pattern_search(node.s) + 2, 0)>>
    ELSE <<REPLACEMENT_CHARACTER>>

\* book_parser.py, lines 30-31: gaiji.replace_with("\uFFFD")
gaiji_replacement(node) == <<REPLACEMENT_CHARACTER>>

\* Lines 27-28: every ruby is replaced by the text of its rb or rt child.
replace_ruby(nodes, major) ==
    replace_with(nodes, find_all(nodes, "ruby"),
        [k \in DOMAIN nodes |->
            get_text(IF major = "rb" THEN nodes[k].rb ELSE nodes[k].rt)])

\* book_parser.py, lines 30-31, and book_texts.py, lines 34-40: the gaiji
\* images still in the tree.
replace_gaiji(nodes) ==
    replace_with(nodes, find_all(nodes, "gaiji"),
        [k \in DOMAIN nodes |-> gaiji_replacement(nodes[k])])

replace_gaiji_by_alt(nodes) ==
    replace_with(nodes, find_all(nodes, "gaiji"),
        [k \in DOMAIN nodes |-> gaiji_by_alt(nodes[k])])

\* Lines 33-45, the same in both files: the other images and the notes are
\* replaced by "", the strings equal to "\n" by "", each br by "\n"; then
\* get_text().
remove_and_get_text(nodes) ==
    LET empty == [k \in DOMAIN nodes |-> <<>>]
        n3 == replace_with(nodes, find_all(nodes, "img"), empty)
        n4 == replace_with(n3, find_all(n3, "notes"), empty)
        n5 == replace_with(n4,
                  {k \in find_all(n4, "text") : n4[k].s = <<NEWLINE>>},
                  empty)
        n6 == replace_with(n5, find_all(n5, "br"),
                  [k \in DOMAIN nodes |-> <<NEWLINE>>])
    IN  get_text(n6)

\* book_parser.extract_text, the one parse_book of build.py calls.
extract_text(main_text, major) ==
    LET text == remove_and_get_text(
                    replace_gaiji(replace_ruby(main_text, major)))
    IN  NFKC(strip_lines(ReplaceEach(NFC(text), replace_texts)))

\* book_texts.extract_text
book_texts_extract_text(main_text, major) ==
    normalize_text(remove_and_get_text(
                       replace_gaiji_by_alt(replace_ruby(main_text, major))))

\* ------------------------------------- the inputs of the text functions

\* The strings over an alphabet of at most n characters.
RECURSIVE Strings(_, _)
Strings(alphabet, n) ==
    IF n = 0 THEN {<<>>}
    ELSE LET shorter == Strings(alphabet, n - 1)
         IN  shorter \cup {Append(s, c) : s \in shorter, c \in alphabet}

\* Readings: ヴァイオリン, ばいおりん, and the strings over ヴ ァ ィ ェ ォ バ
\* ば ゔ ー １.
Violin == <<\h30F4, \h30A1, \h30A4, \h30AA, \h30EA, \h30F3>>
ViolinHiragana == <<\h3070, \h3044, \h304A, \h308A, \h3093>>
ReadingAlphabet ==
    {\h30F4, \h30A1, \h30A3, \h30A7, \h30A9, \h30D0, \h3070, \h3094,
     \h30FC, \hFF11}
Readings == {Violin, ViolinHiragana} \cup Strings(ReadingAlphabet, MaxReading)

\* Texts: the strings over ※ ／ ＼ ″ newline, space, ideographic space, か,
\* U+3099 and a; and "／／＼＼", "／／″＼＼", "　／″＼ \n \n※か" + U+3099.
TextAlphabet ==
    {REFERENCE_MARK, FULLWIDTH_SOLIDUS, FULLWIDTH_REVERSE_SOLIDUS,
     DOUBLE_PRIME, NEWLINE, SPACE, IDEOGRAPHIC_SPACE, \h304B,
     COMBINING_VOICED_SOUND_MARK, \h61}
TextSamples ==
    {<<FULLWIDTH_SOLIDUS, FULLWIDTH_SOLIDUS, FULLWIDTH_REVERSE_SOLIDUS,
       FULLWIDTH_REVERSE_SOLIDUS>>,
     <<FULLWIDTH_SOLIDUS, FULLWIDTH_SOLIDUS, DOUBLE_PRIME,
       FULLWIDTH_REVERSE_SOLIDUS, FULLWIDTH_REVERSE_SOLIDUS>>,
     <<IDEOGRAPHIC_SPACE, FULLWIDTH_SOLIDUS, DOUBLE_PRIME,
       FULLWIDTH_REVERSE_SOLIDUS, SPACE, NEWLINE, SPACE, NEWLINE,
       REFERENCE_MARK, \h304B, COMBINING_VOICED_SOUND_MARK>>}
Texts == TextSamples \cup Strings(TextAlphabet, MaxText)

\* Main texts: at most MaxNodes children, each one of: the strings "\n",
\* "a" and "a\nb"; a br; a gaiji image with alt "※U+3031A" and one with
\* alt "※"; another image; a note; the ruby of 漢 over か; and a ruby whose
\* base is a gaiji image with alt "U+555E".
AltWithMarker == <<REFERENCE_MARK, \h55, \h2B, \h33, \h30, \h33, \h31, \h3001>>
AltWithoutMarker == <<REFERENCE_MARK>>
NodeKinds ==
    {TextNode(<<NEWLINE>>), TextNode(<<\h61>>),
     TextNode(<<\h61, NEWLINE, \h62>>), Br,
     Gaiji(AltWithMarker), Gaiji(AltWithoutMarker), Img, Notes(<<\h6E>>),
     Ruby(<<TextNode(<<\h6F22>>)>>, <<TextNode(<<\h304B>>)>>),
     Ruby(<<Gaiji(<<\h55, \h2B, \h35, \h35, \h35, \h45>>)>>,
          <<TextNode(<<\h304B>>)>>)}
MainTexts == Strings(NodeKinds, MaxNodes)

\* A call of one of the four functions.
Call(fn, text, main_text, major) ==
    [fn |-> fn, text |-> text, main_text |-> main_text, major |-> major]
NoCall == Call("none", <<>>, <<>>, "")
Calls ==
    {Call("normalize_reading", t, <<>>, "") : t \in Readings}
        \cup {Call("normalize_text", t, <<>>, "") : t \in Texts}
        \cup {Call(fn, <<>>, m, major) :
                 fn \in {"book_parser.extract_text",
                         "book_texts.extract_text"},
                 m \in MainTexts, major \in {"rb", "rt"}}
Return(done, value) == [done |-> done, value |-> value]

\* --------------------------------------------------- the database tables

\* The file at OUTPUT_PATH: whether it exists, the number of rows of
\* metadata, and the rows of authors, cards, card_authors and books in
\* rowid order (a row's id is its position: INTEGER PRIMARY KEY, and no
\* statement of the build deletes a row of these tables).
NoFile ==
    [exists |-> FALSE, metadata |-> 0, authors |-> <<>>, cards |-> <<>>,
     card_authors |-> <<>>, books |-> <<>>]

\* SELECT id FROM cards WHERE major_key = ?  (0: fetchone() gave None)
SelectCardIdNever(db, major_key) == 0

SelectCardId(db, major_key) ==
    IF \E id \in DOMAIN db.cards : db.cards[id].major_key = major_key
    THEN CHOOSE id \in DOMAIN db.cards : db.cards[id].major_key = major_key
    ELSE 0

\* SELECT id FROM authors WHERE aozora_id = ?
SelectAuthorId(authors, aozora_id) ==
    IF \E id \in DOMAIN authors : authors[id] = aozora_id
    THEN CHOOSE id \in DOMAIN authors : authors[id] = aozora_id
    ELSE 0

\* for author in card_info.authors: INSERT OR IGNORE INTO authors ...
\* (aozora_id is UNIQUE, so a person already stored is ignored)
RECURSIVE InsertOrIgnoreAuthors(_, _)
InsertOrIgnoreAuthors(authors, persons) ==
    IF persons = <<>> THEN authors
    ELSE InsertOrIgnoreAuthors(
             IF SelectAuthorId(authors, Head(persons).aozora_id) # 0
             THEN authors
             ELSE Append(authors, Head(persons).aozora_id),
             Tail(persons))

\* for author in card_info.authors: INSERT INTO card_authors ...
\* raised: a row broke UNIQUE(card_id, author_id, type) (IntegrityError).
CardAuthor(card_id, author_id, type) ==
    [card_id |-> card_id, author_id |-> author_id, type |-> type]

RECURSIVE InsertCardAuthorsLoop(_, _, _, _)
InsertCardAuthorsLoop(card_authors, card_id, authors, persons) ==
    IF persons = <<>> THEN [raised |-> FALSE, rows |-> card_authors]
    ELSE LET row == CardAuthor(card_id,
                               SelectAuthorId(authors, Head(persons).aozora_id),
                               Head(persons).type)
         IN  IF \E k \in DOMAIN card_authors : card_authors[k] = row
             THEN [raised |-> TRUE, rows |-> card_authors]
             ELSE InsertCardAuthorsLoop(Append(card_authors, row), card_id,
                                        authors, Tail(persons))

InsertCardAuthorsFirstOnly(card_authors, card_id, authors, persons) ==
    InsertCardAuthorsLoop(card_authors, card_id, authors,
                          IF persons = <<>> THEN <<>> ELSE <<Head(persons)>>)

InsertCardAuthors(card_authors, card_id, authors, persons) ==
    InsertCardAuthorsLoop(card_authors, card_id, authors, persons)

\* SELECT EXISTS(SELECT * FROM books WHERE card_id = ? AND minor_key = ?)
BookExistsNever(db, card_id, minor_key) == FALSE

BookExistsForCard(db, card_id, minor_key) ==
    \E k \in DOMAIN db.books : db.books[k].card_id = card_id

BookExists(db, card_id, minor_key) ==
    \E k \in DOMAIN db.books :
        db.books[k].card_id = card_id /\ db.books[k].minor_key = minor_key

Book(card_id, minor_key, license) ==
    [card_id |-> card_id, minor_key |-> minor_key, license |-> license]

\* ------------------------------------------ build.py: one loop iteration

\* Lines 175-274: the card of the file's work, looked up or parsed and
\* inserted with its authors.  raised: parse_card raised, the 著者名 person
\* is not among the stored authors (unpacking fetchone()'s None), or an
\* INSERT broke a UNIQUE constraint; the exception leaves the loop.
CardStep(db, major_key, page) ==
    LET found == SelectCardId(db, major_key)
        authors1 == InsertOrIgnoreAuthors(db.authors, page.authors)
        author_id == SelectAuthorId(authors1, page.author)
        card_id == Len(db.cards) + 1
        cards1 == Append(db.cards,
                         [major_key |-> major_key, author_id |-> author_id])
        links == InsertCardAuthors(db.card_authors, card_id, authors1,
                                   page.authors)
        fail == [raised |-> TRUE, db |-> db, card_id |-> 0]
    IN  IF found # 0 THEN [raised |-> FALSE, db |-> db, card_id |-> found]
        ELSE IF parse_card(page) = "raise" THEN fail
        ELSE IF author_id = 0 THEN fail
        ELSE IF \E id \in DOMAIN db.cards : db.cards[id].major_key = major_key
        THEN fail
        ELSE IF links.raised THEN fail
        ELSE [raised |-> FALSE,
              db |-> [db EXCEPT !.authors = authors1, !.cards = cards1,
                                !.card_authors = links.rows],
              card_id |-> card_id]

\* Lines 308-322: INSERT INTO books; raised when the row breaks
\* UNIQUE(card_id, minor_key).
InsertBook(db, card_id, minor_key, license) ==
    IF \E k \in DOMAIN db.books :
           db.books[k].card_id = card_id /\ db.books[k].minor_key = minor_key
    THEN [raised |-> TRUE, db |-> db]
    ELSE [raised |-> FALSE,
          db |-> [db EXCEPT !.books = Append(@, Book(card_id, minor_key,
                                                     license))]]

\* Lines 164-322: what one iteration does to the connection's view, and
\* how it ends:
\*   "badname"      the file name does not parse (continue, line 173)
\*   "card_raise"   an exception of the card step, re-raised at line 328
\*   "exists"       the revision has a row already (continue, line 282)
\*   "nobody"       parse_book returned None (continue, line 295)
\*   "restrictive"  the license filter skipped it (continue, line 302)
\*   "failed"       an exception inside the inner try (continue, line 306)
\*   "insert_raise" the INSERT raised, re-raised at line 328
\*   "inserted"     the row was inserted; line 324 is reached
Iteration(db, f, page) ==
    LET card == CardStep(db, f.major_key, page)
        book == parse_book(f.doc)
        filter == LicenseFilter(book.license)
        ins == InsertBook(card.db, card.card_id, f.minor_key, book.license)
        end(outcome, db1) == [outcome |-> outcome, db |-> db1]
    IN  IF ~f.name_ok THEN end("badname", db)
        ELSE IF card.raised THEN end("card_raise", db)
        ELSE IF BookExists(card.db, card.card_id, f.minor_key)
        THEN end("exists", card.db)
        ELSE IF book.kind = "none" THEN end("nobody", card.db)
        ELSE IF book.kind = "raise" THEN end("failed", card.db)
        ELSE IF filter = "restrictive" THEN end("restrictive", card.db)
        ELSE IF filter = "raise" THEN end("failed", card.db)
        ELSE IF ins.raised THEN end("insert_raise", card.db)
        ELSE end("inserted", ins.db)

\* The outcomes that leave the loop with an exception, and those reached
\* after parse_book was called.
Raised == {"card_raise", "insert_raise"}
Extracted == {"nobody", "restrictive", "failed", "insert_raise", "inserted"}

\* Line 324: if file_idx > 0 and file_idx % 100 == 0
BatchCommitDue(idx) == idx > 0 /\ idx % BatchEvery = 0

\* One run that nothing interrupts, on a file that did not exist: lines
\* 28-330 from connect to the commit after the loop.
RECURSIVE RunLoop(_, _, _, _)
RunLoop(db, fs, ps, i) ==
    IF i > Len(fs) THEN [status |-> "done", db |-> db]
    ELSE LET r == Iteration(db, fs[i], ps[fs[i].major_key])
         IN  IF r.outcome \in Raised
             THEN [status |-> "aborted", db |-> db]
             ELSE RunLoop(r.db, fs, ps, i + 1)

Uninterrupted(fs, ps) == RunLoop([NoFile EXCEPT !.exists = TRUE], fs, ps, 1)


VARIABLES files, pages, pc, file_idx, conn, disk, atStart, log, call, ret

vars == <<files, pages, pc, file_idx, conn, disk, atStart, log, call, ret>>

\* --------------------------------------------------------- the behaviour

\* files, pages: the corpus.  pc: where main() is ("idle" before the first
\* run; "loop", "stamp" inside a run; "done", "aborted", "crashed" after
\* one).  file_idx: the loop's index.  conn: the tables as the connection
\* sees them (its uncommitted work included).  disk: the tables as of the
\* last commit.  atStart: disk when the current run began.  log: the
\* outcome of every iteration of the current run, in order.  call, ret:
\* the call of a text function that is being looked at on its own, and
\* what it returned (no call while the build runs).

Running == {"loop", "stamp"}

Init ==
    /\ files \in Corpora(NFiles)
    /\ pages \in CardPages(Cardinality(Majors))
    /\ pc = "idle"
    /\ file_idx = 0
    /\ conn = NoFile
    /\ disk = NoFile
    /\ atStart = NoFile
    /\ log = <<>>
    /\ call = NoCall
    /\ ret = Return(FALSE, <<>>)

\* Lines 28-160: connect (which creates the file), DROP TABLE metadata and
\* the CREATE ... IF NOT EXISTS statements inside the open transaction, and
\* File Discovery.
Open ==
    /\ pc \in {"idle", "done", "aborted", "crashed"}
    /\ atStart' = disk
    /\ disk' = [disk EXCEPT !.exists = TRUE]
    /\ conn' = [disk EXCEPT !.exists = TRUE, !.metadata = 0]
    /\ file_idx' = 0
    /\ log' = <<>>
    /\ pc' = "loop"
    /\ UNCHANGED <<files, pages, call, ret>>

\* Lines 163-328: one iteration of the loop, its commit included.  An
\* exception that leaves the loop ends the process; the open transaction is
\* rolled back.
LoopStep ==
    /\ pc = "loop"
    /\ file_idx < Len(files)
    /\ LET f == files[file_idx + 1]
           r == Iteration(conn, f, pages[f.major_key])
       IN  /\ log' = Append(log, r.outcome)
           /\ IF r.outcome \in Raised
              THEN /\ pc' = "aborted"
                   /\ conn' = disk
                   /\ UNCHANGED <<file_idx, disk>>
              ELSE /\ pc' = "loop"
                   /\ conn' = r.db
                   /\ file_idx' = file_idx + 1
                   /\ disk' = IF r.outcome = "inserted"
                                 /\ BatchCommitDue(file_idx)
                              THEN r.db
                              ELSE disk
    /\ UNCHANGED <<files, pages, atStart, call, ret>>

\* Line 330: conn.commit() after the loop.
FinalCommit ==
    /\ pc = "loop"
    /\ file_idx = Len(files)
    /\ disk' = conn
    /\ pc' = "stamp"
    /\ UNCHANGED <<files, pages, file_idx, conn, atStart, log, call, ret>>

\* Lines 332-356: git log, INSERT INTO metadata, commit, close, VACUUM.
\* When git prints nothing, unpacking the split raises and the run ends.
Stamp ==
    /\ pc = "stamp"
    /\ \E git_ok \in BOOLEAN :
          IF git_ok
          THEN /\ conn' = [conn EXCEPT !.metadata = @ + 1]
               /\ disk' = conn'
               /\ pc' = "done"
          ELSE /\ conn' = disk
               /\ pc' = "aborted"
               /\ UNCHANGED disk
    /\ UNCHANGED <<files, pages, file_idx, atStart, log, call, ret>>

\* The process is killed inside a run: the file keeps what the last commit
\* wrote.
Crash ==
    /\ pc \in Running
    /\ pc' = "crashed"
    /\ conn' = disk
    /\ file_idx' = 0
    /\ log' = <<>>
    /\ UNCHANGED <<files, pages, disk, atStart, call, ret>>

Next == Open \/ LoopStep \/ FinalCommit \/ Stamp \/ Crash

Spec == Init /\ [][Next]_vars

\* ------------------------------------------- the text functions, called

\* One call of one text function on one of the inputs; no build runs.
InitText ==
    /\ files = <<>>
    /\ pages = <<>>
    /\ pc = "idle"
    /\ file_idx = 0
    /\ conn = NoFile
    /\ disk = NoFile
    /\ atStart = NoFile
    /\ log = <<>>
    /\ call \in Calls
    /\ ret = Return(FALSE, <<>>)

build_vars == <<files, pages, pc, file_idx, conn, disk, atStart, log>>

NormalizeReading ==
    /\ call.fn = "normalize_reading"
    /\ ~ret.done
    /\ ret' = Return(TRUE, normalize_reading(call.text))
    /\ UNCHANGED <<build_vars, call>>

NormalizeText ==
    /\ call.fn = "normalize_text"
    /\ ~ret.done
    /\ ret' = Return(TRUE, normalize_text(call.text))
    /\ UNCHANGED <<build_vars, call>>

ExtractText ==
    /\ call.fn = "book_parser.extract_text"
    /\ ~ret.done
    /\ ret' = Return(TRUE, extract_text(call.main_text, call.major))
    /\ UNCHANGED <<build_vars, call>>

BookTextsExtractText ==
    /\ call.fn = "book_texts.extract_text"
    /\ ~ret.done
    /\ ret' = Return(TRUE, book_texts_extract_text(call.main_text,
                                                   call.major))
    /\ UNCHANGED <<build_vars, call>>

NextText ==
    NormalizeReading \/ NormalizeText \/ ExtractText \/ BookTextsExtractText

SpecText == InitText /\ [][NextText]_vars

\* ------------------------------------------------------------ properties

\* The work, author, association and text-revision rows of a database.
Rows(db) == <<db.authors, db.cards, db.card_authors, db.books>>

IsPrefix(s, t) == Len(s) <= Len(t) /\ SubSeq(t, 1, Len(s)) = s

\* The text revisions a database holds, by work id (major_key).
Revisions(db) ==
    {<<db.cards[db.books[k].card_id].major_key, db.books[k].minor_key,
       db.books[k].license>> : k \in DOMAIN db.books}

HasRevision(db, f) ==
    \E r \in Revisions(db) : r[1] = f.major_key /\ r[2] = f.minor_key

NoDuplicateRevision(db) ==
    \A j, k \in DOMAIN db.books :
        (/\ db.books[j].card_id = db.books[k].card_id
         /\ db.books[j].minor_key = db.books[k].minor_key) => j = k

\* C1: in every state of every sequence of runs (interrupted ones and
\* re-runs included) the text-revision table holds no two rows with the
\* same (work, revision), in the connection's view and on disk, and no
\* iteration of the current run called parse_book for a revision that had
\* a committed row when the run began.
C1_RevisionInsertedOnce ==
    /\ NoDuplicateRevision(conn)
    /\ NoDuplicateRevision(disk)
    /\ \A i \in DOMAIN log :
           log[i] \in Extracted => ~HasRevision(atStart, files[i])

\* C1 witness: a re-run has met a revision committed by an earlier run and
\* skipped it at the existence test.
C1_Witness ==
    /\ pc = "loop"
    /\ \E i \in DOMAIN log :
           log[i] = "exists" /\ HasRevision(atStart, files[i])

\* C2: a run began from what an interrupted run had committed and went on;
\* the rows it found are still there, in place; no (work, revision) is
\* stored twice; and when it ends it ends as one uninterrupted run over the
\* same corpus ends: completed with the same work, author, association and
\* text-revision rows, or stopped by the same exception in the loop.
C2_Resumable ==
    LET ref == Uninterrupted(files, pages)
    IN  /\ pc = "done" => ref.status = "done" /\ Rows(disk) = Rows(ref.db)
        /\ (pc = "aborted" /\ log # <<>> /\ log[Len(log)] \in Raised)
               => ref.status = "aborted"
        /\ pc \in Running \cup {"done"} =>
               /\ IsPrefix(atStart.authors, conn.authors)
               /\ IsPrefix(atStart.cards, conn.cards)
               /\ IsPrefix(atStart.card_authors, conn.card_authors)
               /\ IsPrefix(atStart.books, conn.books)
        /\ NoDuplicateRevision(disk)

\* C2 witness: a run has completed that began from the rows a batch commit
\* of an interrupted run had left (no metadata row, some but not all of the
\* text revisions).
C2_Witness ==
    /\ pc = "done"
    /\ atStart.metadata = 0
    /\ atStart.books # <<>>
    /\ Len(atStart.books) < Len(disk.books)

\* The "/"-separated pieces of a URL by the positions of its slashes: the
\* n-th piece lies between the (n-1)-th and the n-th slash.
Slashes(u) == {k \in DOMAIN u : u[k] = "/"}
PieceCount(u) == Cardinality(Slashes(u)) + 1
NthSlash(u, n) ==
    CHOOSE k \in Slashes(u) : Cardinality({j \in Slashes(u) : j <= k}) = n
Piece(u, n) ==
    SubSeq(u,
           IF n = 1 THEN 1 ELSE NthSlash(u, n - 1) + 1,
           IF n = PieceCount(u) THEN Len(u) ELSE NthSlash(u, n) - 1)

\* A piece such as by-nc-nd names the term "nd" or "sa", in either case.
NdOrSa == {"nd", "sa", "ND", "SA"}
HasNdOrSa(piece) == \E k \in DOMAIN piece : piece[k] \in NdOrSa

\* The files whose iteration in the current run called parse_book and got
\* a record with a license URL, while the connection's view is live.
ExtractedWithLicense ==
    {i \in DOMAIN log :
        /\ pc \in Running \cup {"done"}
        /\ log[i] \in Extracted
        /\ files[i].doc.main_text
        /\ files[i].doc.bi # files[i].doc.at
        /\ files[i].doc.license # None}

C4_PermissiveInserted ==
    \A i \in DOMAIN log :
        (/\ pc \in Running \cup {"done"}
         /\ log[i] \in Extracted
         /\ files[i].doc.main_text
         /\ files[i].doc.bi # files[i].doc.at
         /\ ~HasNdOrSa(files[i].doc.license))
            => HasRevision(conn, files[i])

\* C5 as stated: after a completed run no text revision is stored without
\* a license URL for a work that is not copyright-expired.
C5_NoUnlicensedProtectedText ==
    pc = "done" =>
        \A r \in Revisions(disk) : ~(~copyright_expired(r[1]) /\ r[3] = None)

\* C6 as stated: after a completed run every work row has at least one
\* text-revision row.
C6_EveryWorkHasText ==
    pc = "done" =>
        \A id \in DOMAIN disk.cards :
            \E k \in DOMAIN disk.books : disk.books[k].card_id = id

\* C7: after a completed run every author row is referenced by at least
\* one work-author association row.
C7_EveryAuthorAssociated ==
    pc = "done" =>
        \A id \in DOMAIN disk.authors :
            \E k \in DOMAIN disk.card_authors :
                disk.card_authors[k].author_id = id

\* C7 witness: a run has completed with the authors of two works stored,
\* one of them listed by both works.
C7_Witness ==
    /\ pc = "done"
    /\ Len(disk.authors) >= 3
    /\ \E j, k \in DOMAIN disk.card_authors :
           /\ disk.card_authors[j].author_id = disk.card_authors[k].author_id
           /\ disk.card_authors[j].card_id # disk.card_authors[k].card_id

\* C8 as stated: a run that finds the finished database of an earlier
\* completed run (its metadata row in place) writes nothing to the file.
C8_NoWriteToFinishedFile ==
    (pc \in Running \cup {"done"} /\ atStart.metadata = 1) => disk = atStart

\* C9 as stated: when a run aborts, the rows of the file at the output path
\* are those it held when the run began.
C9_NoPartialPublish ==
    pc = "aborted" =>
        /\ Rows(disk) = Rows(atStart)
        /\ disk.metadata = atStart.metadata

\* A document with a main text and zero or both of the end-matter
\* containers.
Malformed(f) == f.name_ok /\ f.doc.main_text /\ f.doc.bi = f.doc.at

\* The text revisions of the well-formed documents of a corpus, each
\* decided by its own page alone.
OwnRevisions(fs) ==
    {<<fs[i].major_key, fs[i].minor_key, fs[i].doc.license>> :
        i \in {j \in DOMAIN fs :
                  /\ fs[j].name_ok
                  /\ ~Malformed(fs[j])
                  /\ fs[j].doc.main_text
                  /\ LicenseFilter(fs[j].doc.license) = "insert"}}

\* C10: a document with zero or both end-matter containers never has a
\* text-revision row; its iteration ends in the inner except clause (or
\* earlier, at its work's card, which does not read the document), so the
\* document does not end the run; and a completed run leaves exactly the
\* text revisions of the other documents, the ones the corpus without the
\* malformed documents gives.
C10_MalformedEndMatterSkipped ==
    /\ \A i \in DOMAIN files :
           Malformed(files[i]) =>
               ~HasRevision(conn, files[i]) /\ ~HasRevision(disk, files[i])
    /\ \A i \in DOMAIN log :
           Malformed(files[i]) => log[i] \in {"failed", "card_raise"}
    /\ pc = "done" =>
           /\ Revisions(disk) = OwnRevisions(files)
           /\ Revisions(disk) =
                  OwnRevisions(SelectSeq(files, LAMBDA f : ~Malformed(f)))

\* C10 witness: a run has completed in which a two-container document was
\* caught and a later document was inserted.
C10_Witness ==
    /\ pc = "done"
    /\ \E i, j \in DOMAIN log :
           /\ i < j
           /\ files[i].doc = DocTwoColophons
           /\ log[i] = "failed"
           /\ log[j] = "inserted"

\* C11 as stated: a card page with a label parse_card does not know ends
\* only the iteration of its own document; the exception is caught there
\* and the run is not aborted by it.
C11_UnknownKeyNotFatal ==
    \A i \in DOMAIN log :
        (/\ files[i].name_ok
         /\ pages[files[i].major_key].unknown_key
         /\ log[i] = "card_raise")
            => ~(pc = "aborted" /\ i = Len(log))

\* A document without a main-text container, under a name that parses.
NoBody(f) == f.name_ok /\ ~f.doc.main_text

\* C12: parse_book returns None for every document without a main-text
\* container; such a document never has a text-revision row; its iteration
\* ends at the None test (or earlier, at its work's card, which does not
\* read the document), never in the except clause; and the loop moves on
\* past an iteration that ended at the None test.
C12_NoBodySkipped ==
    /\ \A d \in AllDocs : ~d.main_text => parse_book(d) = BookResult("none", None)
    /\ \A i \in DOMAIN files :
           NoBody(files[i]) =>
               ~HasRevision(conn, files[i]) /\ ~HasRevision(disk, files[i])
    /\ \A i \in DOMAIN log :
           NoBody(files[i]) => log[i] \in {"nobody", "card_raise"}
    /\ \A i \in DOMAIN log : log[i] = "nobody" => file_idx >= i

\* C12 witness: the loop is running, a document without a main text was
\* skipped at the None test and a later document was inserted.
C12_Witness ==
    /\ pc = "loop"
    /\ \E i, j \in DOMAIN log :
           /\ i < j
           /\ NoBody(files[i])
           /\ log[i] = "nobody"
           /\ log[j] = "inserted"

\* C13 as stated: whenever the file holds committed rows, its metadata
\* table holds exactly one row.
C13_ExactlyOneMetadataRow ==
    (disk.exists /\ Rows(disk) # Rows(NoFile)) => disk.metadata = 1

\* C14 as stated: every stored work has an association row that names the
\* work's primary author.
C14_PrimaryAuthorAssociated ==
    \A id \in DOMAIN disk.cards :
        \E k \in DOMAIN disk.card_authors :
            /\ disk.card_authors[k].card_id = id
            /\ disk.card_authors[k].author_id = disk.cards[id].author_id

\* A document that parse_book returns a record for and the license filter
\* skips.
Restrictive(f) ==
    /\ f.name_ok
    /\ parse_book(f.doc).kind = "data"
    /\ LicenseFilter(parse_book(f.doc).license) = "restrictive"

\* C18: a revision that is skipped for its missing body or its restrictive
\* license never has a row, committed or not; so in every run of every
\* sequence of runs its iteration, when the card of its work lets it get
\* that far, does not end at the existence test: parse_book is called for
\* it again and it is skipped again, for the same reason.
C18_SkippedAgainEveryRun ==
    /\ \A i \in DOMAIN files :
           (NoBody(files[i]) \/ Restrictive(files[i])) =>
               ~HasRevision(conn, files[i]) /\ ~HasRevision(disk, files[i])
    /\ \A i \in DOMAIN log :
           /\ NoBody(files[i]) => log[i] \in {"nobody", "card_raise"}
           /\ Restrictive(files[i]) => log[i] \in {"restrictive", "card_raise"}

\* C18 witness: after a run that completed (it left the metadata row and a
\* text revision), a later run has again skipped a document without a body
\* and a document with a restrictive license, and has met the stored
\* revision at the existence test.
C18_Witness ==
    /\ atStart.metadata = 1
    /\ atStart.books # <<>>
    /\ pc = "stamp"
    /\ \E i, j, k \in DOMAIN log :
           /\ NoBody(files[i]) /\ log[i] = "nobody"
           /\ Restrictive(files[j]) /\ log[j] = "restrictive"
           /\ log[k] = "exists"

\* C20 as stated: when the loop has finished the iteration of a file whose
\* index is a positive multiple of the batch period, every row inserted so
\* far is committed, whatever the outcome of that iteration.
C20_CommittedAtBatchIndex ==
    (pc = "loop" /\ file_idx > 0 /\ BatchCommitDue(file_idx - 1))
        => Rows(disk) = Rows(conn)

Returned(fn) == call.fn = fn /\ ret.done

\* C15 as stated: normalize_reading maps ヴァイオリン to the key it maps
\* ばいおりん to.
C15_ViolinSameKey ==
    (Returned("normalize_reading") /\ call.text = Violin)
        => ret.value = normalize_reading(ViolinHiragana)

\* The gaiji images among the children of the main text.
GaijiAlts(main_text) ==
    {main_text[k].s : k \in {j \in DOMAIN main_text :
                                main_text[j].tag = "gaiji"}}

Chars(s) == {s[k] : k \in DOMAIN s}

\* C16 as stated: the text the build's extraction returns holds, for every
\* gaiji image of the main text, the code point its alt names with U+<hex>,
\* or U+FFFD when the alt names none.
C16_GaijiCodePoint ==
    Returned("book_parser.extract_text") =>
        \A alt \in GaijiAlts(call.main_text) :
            gaiji_by_alt(Gaiji(alt))[1] \in Chars(ret.value)

\* C17: normalize_text applied to what normalize_text returned returns it
\* unchanged, for every text.
C17_NormalizeTextIdempotent ==
    Returned("normalize_text") => normalize_text(ret.value) = ret.value

\* C17 witness: normalize_text has returned for a text in which it
\* replaced ／″＼ and ※, trimmed a line and dropped a line of blanks.
C17_Witness ==
    /\ Returned("normalize_text")
    /\ ret.value = <<VERTICAL_KANA_REPEAT_WITH_VOICED_SOUND_MARK, NEWLINE,
                     REPLACEMENT_CHARACTER, \h304C>>
    /\ Len(call.text) = 11

Newlines(s) == {k \in DOMAIN s : s[k] = NEWLINE}

\* C19 as stated: the text the build's extraction returns holds no more
\* newlines than the main text has br nodes.
C19_NewlinesOnlyFromBr ==
    Returned("book_parser.extract_text") =>
        Cardinality(Newlines(ret.value))
            <= Cardinality(find_all(call.main_text, "br"))

====
